---- MODULE Spec2Model ----
(***************************************************************************)
(* A model of ContiguousMap (src/src/lib.rs): an ordered map that stores   *)
(* values with adjacent keys in one vector.  The store is a BTreeMap from  *)
(* a region's start key to the vector of its values.                       *)
(*                                                                         *)
(* The key type is a bounded unsigned key 0..KeyMax (the shape of u8, or   *)
(* of a ToIndex/TryFromIndex key such as LessThan100 in src/src/key.rs).   *)
(* usize offsets and lengths are never close to their limit and are plain  *)
(* naturals.  Option<T> is a sequence of length at most one.               *)
(***************************************************************************)
EXTENDS Integers, Sequences, FiniteSets, TLC

\* ---------------------------------------------------------------- bounds
KeyMax == 4
MaxClearLen == 5
MaxSliceLen == 3
MaxGetLen == 4
MaxNum == 256

Keys == 0..KeyMax

\* The value type V is opaque to the map: values are moved and cloned, never
\* compared or computed on.  Two distinct values tell an overwrite from a
\* no-op and a reordering from the identity.
Values == {1, 2}

\* ---------------------------------------------------------------- Option
None == <<>>
Some(x) == <<x>>

\* ---------------------------------------------------------------- Key
\* checked_add(1)
add_one_wrapping(k) == Some((k + 1) % (KeyMax + 1))

add_one(k) == IF k + 1 <= KeyMax THEN Some(k + 1) ELSE None

\* the predecessor of a key, none at the minimum key
sub_one(k) == IF k >= 1 THEN Some(k - 1) ELSE None

\* checked_sub, then the conversion to usize (which always fits here)
difference(k, smaller) == IF k >= smaller THEN Some(k - smaller) ELSE None

\* checked_add(num.try_into().ok()?)
add_usize(k, num) == IF k + num <= KeyMax THEN Some(k + num) ELSE None

\* ---------------------------------------------------------------- signed keys
\* signed_key_impl!(i8): the key is an i8, its magnitude a u8
I8 == -128..127

\* i8::unsigned_abs, a u8 (128 for i8::MIN)
unsigned_abs(x) == IF x < 0 THEN 0 - x ELSE x

\* u8::checked_sub / u8::checked_add
u8_checked_sub(a, b) == IF a >= b THEN Some(a - b) ELSE None
u8_checked_add(a, b) == IF a + b <= 255 THEN Some(a + b) ELSE None

\* i8::checked_add
i8_checked_add(a, b) == IF a + b \in I8 THEN Some(a + b) ELSE None

\* usize -> i8 and usize -> u8 by try_into().ok()
try_into_i8(n) == IF n <= 127 THEN Some(n) ELSE None
try_into_u8(n) == IF n <= 255 THEN Some(n) ELSE None

\* `x as i8` for a u8: the same eight bits read as two's complement
as_i8(x) == IF x >= 128 THEN x - 256 ELSE x

signed_add_one(self) == i8_checked_add(self, 1)

signed_difference_narrow(self, smaller) ==
    IF self < 0 /\ smaller < 0
    THEN u8_checked_sub(unsigned_abs(smaller), unsigned_abs(self))
    ELSE IF self < 0 THEN None
    ELSE IF smaller < 0 THEN i8_checked_add(unsigned_abs(self), unsigned_abs(smaller))
    ELSE u8_checked_sub(unsigned_abs(self), unsigned_abs(smaller))

\* the u8 result always converts to usize
signed_difference(self, smaller) ==
    IF self < 0 /\ smaller < 0
    THEN u8_checked_sub(unsigned_abs(smaller), unsigned_abs(self))
    ELSE IF self < 0 THEN None
    ELSE IF smaller < 0 THEN u8_checked_add(unsigned_abs(self), unsigned_abs(smaller))
    ELSE u8_checked_sub(unsigned_abs(self), unsigned_abs(smaller))

\* `0 - y` in i8: the subtraction overflows for y = i8::MIN (a panic with
\* overflow checks, a wrap to i8::MIN without)
i8_neg(y) == IF 0 - y \in I8 THEN {[ret |-> Some(0 - y), panic |-> FALSE]}
             ELSE {[ret |-> None, panic |-> TRUE], [ret |-> Some(-128), panic |-> FALSE]}

\* the outcomes of add_usize: a set, of one element unless an overflow leaves
\* the outcome to the build
signed_add_usize_narrow(self, num) ==
    IF self >= 0
    THEN LET n == try_into_i8(num)
         IN  {[ret |-> IF n = None THEN None ELSE i8_checked_add(self, n[1]),
               panic |-> FALSE]}
    ELSE LET negated_self == unsigned_abs(self)
             n == try_into_i8(num)
         IN  IF n = None THEN {[ret |-> None, panic |-> FALSE]}
             ELSE IF negated_self <= n[1]
             THEN {[ret |-> try_into_i8(n[1] - negated_self), panic |-> FALSE]}
             ELSE IF n[1] = 0 THEN {[ret |-> Some(self), panic |-> FALSE]}
             ELSE i8_neg(as_i8(negated_self - n[1]))

signed_add_usize(self, num) ==
    IF self >= 0
    THEN LET n == try_into_i8(num)
         IN  {[ret |-> IF n = None THEN None ELSE i8_checked_add(self, n[1]),
               panic |-> FALSE]}
    ELSE LET negated_self == unsigned_abs(self)
             n == try_into_u8(num)
         IN  IF n = None THEN {[ret |-> None, panic |-> FALSE]}
             ELSE IF negated_self <= n[1]
             THEN {[ret |-> try_into_i8(n[1] - negated_self), panic |-> FALSE]}
             ELSE IF n[1] = 0 THEN {[ret |-> Some(self), panic |-> FALSE]}
             ELSE i8_neg(as_i8(negated_self - n[1]))

\* ---------------------------------------------------------------- Vec
\* Vec::truncate: no effect when len is not smaller than the length
truncate(vec, len) == IF len >= Len(vec) THEN vec ELSE SubSeq(vec, 1, len)

\* slice::rotate_left(mid), defined for mid <= len
rotate_left(vec, mid) == SubSeq(vec, mid + 1, Len(vec)) \o SubSeq(vec, 1, mid)

\* Vec::split_off(at), defined for at <= len: <<what stays, what is returned>>
split_off(vec, at) == <<SubSeq(vec, 1, at), SubSeq(vec, at + 1, Len(vec))>>

\* usize::cmp
cmp_stuck(a, b) == IF a < b THEN "Less" ELSE "Equal"

cmp(a, b) == IF a < b THEN "Less" ELSE IF a = b THEN "Equal" ELSE "Greater"

\* ---------------------------------------------------------------- BTreeMap
\* BTreeMap::new / BTreeMap::clear
EmptyMap == [k \in {} |-> <<>>]

SetMax(S) == CHOOSE x \in S : \A y \in S : y <= x
SetMin(S) == CHOOSE x \in S : \A y \in S : x <= y

\* map.range(..=key).next_back(): the greatest stored start key <= key
range_to_next_back(m, key) ==
    LET S == {s \in DOMAIN m : s <= key}
    IN  IF S = {} THEN None ELSE Some(SetMax(S))

\* map.range(key..).next(): the smallest stored start key >= key
range_from_next(m, key) ==
    LET S == {s \in DOMAIN m : s >= key}
    IN  IF S = {} THEN None ELSE Some(SetMin(S))

\* BTreeMap::insert(key, vec): adds or replaces the entry
btree_insert(m, key, vec) ==
    [k \in (DOMAIN m) \cup {key} |-> IF k = key THEN vec ELSE m[k]]

\* BTreeMap::remove(key): the map without the entry
btree_remove(m, key) == [k \in (DOMAIN m) \ {key} |-> m[k]]

\* ---------------------------------------------------------------- results
\* What a call leaves behind: the store, the returned value, and whether an
\* unwrap()/expect()/index panicked on the way.
Ok(m, ret) == [map |-> m, ret |-> ret, panic |-> FALSE]
Panic(m) == [map |-> m, ret |-> None, panic |-> TRUE]

\* ---------------------------------------------------------------- queries
len(m) ==
    LET RECURSIVE Sum(_)
        Sum(S) == IF S = {} THEN 0
                  ELSE LET s == SetMin(S) IN Len(m[s]) + Sum(S \ {s})
    IN  Sum(DOMAIN m)

is_empty(m) == DOMAIN m = {}

num_contiguous_regions(m) == Cardinality(DOMAIN m)

get(m, key) ==
    LET entry == range_to_next_back(m, key)
    IN  IF entry = None THEN None
        ELSE LET index == difference(key, entry[1])
             IN  IF index = None THEN None
                 ELSE IF index[1] < Len(m[entry[1]])
                      THEN Some(m[entry[1]][index[1] + 1])
                      ELSE None

\* ---------------------------------------------------------------- insert
\* Ordering::Less: overwrite in place, return the old value
insert_overwrite_ret_new(m, ek, index, value) ==
    Ok([m EXCEPT ![ek][index + 1] = value], Some(value))

insert_overwrite(m, ek, index, value) ==
    Ok([m EXCEPT ![ek][index + 1] = value], Some(m[ek][index + 1]))

\* Ordering::Equal: push, then merge with the entry starting right after key
insert_append_no_merge(m, ek, key, value) ==
    Ok([m EXCEPT ![ek] = Append(@, value)], None)

insert_append(m, ek, key, value) ==
    LET pushed == [m EXCEPT ![ek] = Append(@, value)]
        one_after_key == add_one(key)
    IN  IF one_after_key # None /\ one_after_key[1] \in DOMAIN pushed
        THEN LET removed == btree_remove(pushed, one_after_key[1])
                 append_values == pushed[one_after_key[1]]
             IN  IF ek \in DOMAIN removed
                 THEN Ok([removed EXCEPT ![ek] = @ \o append_values], None)
                 ELSE Panic(removed)
        ELSE Ok(pushed, None)

\* no insertion point: a new entry, extended by the entry starting right after
insert_new_no_merge(m, key, value) == Ok(btree_insert(m, key, <<value>>), None)

insert_new_drop(m, key, value) ==
    LET one_after_key == add_one(key)
    IN  IF one_after_key # None /\ one_after_key[1] \in DOMAIN m
        THEN Ok(btree_insert(btree_remove(m, one_after_key[1]), key, <<value>>), None)
        ELSE Ok(btree_insert(m, key, <<value>>), None)

insert_new_wrong_order(m, key, value) ==
    LET one_after_key == add_one(key)
    IN  IF one_after_key # None /\ one_after_key[1] \in DOMAIN m
        THEN Ok(btree_insert(btree_remove(m, one_after_key[1]), key,
                             m[one_after_key[1]] \o <<value>>), None)
        ELSE Ok(btree_insert(m, key, <<value>>), None)

insert_new(m, key, value) ==
    LET one_after_key == add_one(key)
    IN  IF one_after_key # None /\ one_after_key[1] \in DOMAIN m
        THEN Ok(btree_insert(btree_remove(m, one_after_key[1]), key,
                             <<value>> \o m[one_after_key[1]]), None)
        ELSE Ok(btree_insert(m, key, <<value>>), None)

insert(m, key, value) ==
    LET insertion_entry == range_to_next_back(m, key)
    IN  IF insertion_entry = None THEN insert_new(m, key, value)
        ELSE LET ek == insertion_entry[1]
                 index == difference(key, ek)
             IN  IF index = None THEN insert_new(m, key, value)
                 ELSE LET ord == cmp(index[1], Len(m[ek]))
                      IN  IF ord = "Less"
                          THEN insert_overwrite(m, ek, index[1], value)
                          ELSE IF ord = "Equal"
                          THEN insert_append(m, ek, key, value)
                          ELSE insert_new(m, key, value)

\* ---------------------------------------------------------------- remove
\* Ordering::Equal: pop the last value, delete the entry when it is now empty
remove_pop_keep_empty(m, ek, key) ==
    Ok([m EXCEPT ![ek] = SubSeq(@, 1, Len(@) - 1)], Some(m[ek][Len(m[ek])]))

remove_pop(m, ek, key) ==
    LET value == m[ek][Len(m[ek])]
        popped == [m EXCEPT ![ek] = SubSeq(@, 1, Len(@) - 1)]
    IN  IF popped[ek] = <<>>
        THEN IF key \in DOMAIN popped
             THEN Ok(btree_remove(popped, key), Some(value))
             ELSE Panic(popped)
        ELSE Ok(popped, Some(value))

\* index == 0: the entry moves to the next adjacent key without its front value
remove_front_keep_value(m, key) ==
    Ok(btree_insert(btree_remove(m, key), key + 1, m[key]), Some(m[key][1]))

remove_front(m, key) ==
    IF key \notin DOMAIN m THEN Panic(m)
    ELSE LET removed == btree_remove(m, key)
             next_key == add_one(key)
         IN  IF next_key = None THEN Panic(removed)
             ELSE IF m[key] = <<>> THEN Panic(removed)
             ELSE Ok(btree_insert(removed, next_key[1], Tail(m[key])),
                     Some(m[key][1]))

\* 0 < index < len - 1: the tail becomes a new entry right after key
remove_split_shift(m, ek, index, key) ==
    LET parts == split_off(m[ek], index)
    IN  Ok(btree_insert([m EXCEPT ![ek] = parts[1]], key + 1, parts[2]),
           Some(m[ek][index + 1]))

remove_split(m, ek, index, key) ==
    IF index + 1 > Len(m[ek]) THEN Panic(m)
    ELSE LET parts == split_off(m[ek], index + 1)
             tail == parts[2]
         IN  IF parts[1] = <<>> THEN Panic(m)
             ELSE LET value == parts[1][Len(parts[1])]
                      kept == [m EXCEPT ![ek] = SubSeq(parts[1], 1, Len(parts[1]) - 1)]
                      tail_key == add_one(key)
                  IN  IF tail_key = None THEN Panic(kept)
                      ELSE Ok(btree_insert(kept, tail_key[1], tail), Some(value))

remove(m, key) ==
    LET entry == range_to_next_back(m, key)
    IN  IF entry = None THEN Ok(m, None)
        ELSE LET ek == entry[1]
                 index == difference(key, ek)
             IN  IF index = None THEN Ok(m, None)
                 ELSE IF Len(m[ek]) = 0 THEN Panic(m)
                 ELSE LET ord == cmp(index[1], Len(m[ek]) - 1)
                      IN  IF ord = "Greater" THEN Ok(m, None)
                          ELSE IF ord = "Equal" THEN remove_pop(m, ek, key)
                          ELSE IF index[1] = 0 THEN remove_front(m, key)
                          ELSE remove_split(m, ek, index[1], key)

\* ---------------------------------------------------------------- clear
clear(m) == Ok(EmptyMap, None)

\* ---------------------------------------------------------------- Index
\* struct Index { key, offset }, ordered by key and then by offset
Index(key, offset) == [key |-> key, offset |-> offset]

IndexLe(a, b) == a.key < b.key \/ (a.key = b.key /\ a.offset <= b.offset)

\* the outcome of `len() - 1` on an empty vector: the subtraction overflows
Overflowed == Some(Index(0, -1))

first(m) ==
    IF DOMAIN m = {} THEN None ELSE Some(Index(SetMin(DOMAIN m), 0))

last(m) ==
    IF DOMAIN m = {} THEN None
    ELSE LET k == SetMax(DOMAIN m)
         IN  IF Len(m[k]) = 0 THEN Overflowed ELSE Some(Index(k, Len(m[k]) - 1))

find(m, key) ==
    LET entry == range_to_next_back(m, key)
    IN  IF entry = None THEN None
        ELSE LET offset == difference(key, entry[1])
             IN  IF offset = None THEN None
                 ELSE IF offset[1] >= Len(m[entry[1]]) THEN None
                 ELSE Some(Index(entry[1], offset[1]))

Min(a, b) == IF a <= b THEN a ELSE b

find_at_most_unclamped(m, key) ==
    LET entry == range_to_next_back(m, key)
    IN  IF entry = None THEN None
        ELSE LET offset == difference(key, entry[1])
             IN  IF offset = None THEN None
                 ELSE Some(Index(entry[1], offset[1]))

find_at_most(m, key) ==
    LET entry == range_to_next_back(m, key)
    IN  IF entry = None THEN None
        ELSE LET offset == difference(key, entry[1])
             IN  IF offset = None THEN None
                 ELSE IF Len(m[entry[1]]) = 0 THEN Overflowed
                 ELSE Some(Index(entry[1], Min(offset[1], Len(m[entry[1]]) - 1)))

find_less(m, key) ==
    LET below == sub_one(key)
    IN  IF below = None THEN None ELSE find_at_most(m, below[1])

find_at_least_exact(m, key) == find(m, key)

find_at_least(m, key) ==
    LET index == find(m, key)
    IN  IF index # None THEN index
        ELSE LET entry == range_from_next(m, key)
             IN  IF entry = None THEN None ELSE Some(Index(entry[1], 0))

find_more_saturating(m, key) ==
    find_at_least(m, IF key + 1 <= KeyMax THEN key + 1 ELSE key)

find_more(m, key) ==
    LET above == add_one(key)
    IN  IF above = None THEN None ELSE find_at_least(m, above[1])

\* std::ops::Bound
Included(k) == [kind |-> "Included", key |-> k]
Excluded(k) == [kind |-> "Excluded", key |-> k]
Unbounded == [kind |-> "Unbounded", key |-> 0]

Bounds == {Included(k) : k \in Keys} \cup {Excluded(k) : k \in Keys} \cup {Unbounded}

find_range(m, start_bound, end_bound) ==
    LET start == IF start_bound.kind = "Excluded" THEN find_more(m, start_bound.key)
                 ELSE IF start_bound.kind = "Included" THEN find_at_least(m, start_bound.key)
                 ELSE first(m)
        end == IF end_bound.kind = "Excluded" THEN find_less(m, end_bound.key)
               ELSE IF end_bound.kind = "Included" THEN find_at_most(m, end_bound.key)
               ELSE last(m)
    IN  IF start = None THEN None
        ELSE IF end = None THEN None
        ELSE IF end = Overflowed THEN Overflowed
        ELSE IF IndexLe(start[1], end[1])
             THEN Some([start |-> start[1], end |-> end[1]])
             ELSE None

\* ---------------------------------------------------------------- clear_range
\* end.key.add_usize(end.offset).unwrap().add_one().unwrap()
key_after_one_more(end) ==
    LET last_key == add_usize(end.key, end.offset + 1)
    IN  IF last_key = None THEN None ELSE add_one(last_key[1])

key_after(end) ==
    LET last_key == add_usize(end.key, end.offset)
    IN  IF last_key = None THEN None ELSE add_one(last_key[1])

\* the front of a vector is cleared: the rest is re-inserted right after it
clear_front_same_key(m, end) ==
    Ok([m EXCEPT ![end.key] = SubSeq(@, end.offset + 2, Len(@))], None)

clear_front(m, end) ==
    IF end.key \notin DOMAIN m THEN Panic(m)
    ELSE LET vec == m[end.key]
             removed == btree_remove(m, end.key)
             num_to_remove == end.offset + 1
             new_key == key_after(end)
         IN  IF num_to_remove > Len(vec) THEN Panic(removed)
             ELSE IF new_key = None THEN Panic(removed)
             ELSE Ok(btree_insert(removed, new_key[1],
                                  truncate(rotate_left(vec, num_to_remove),
                                           Len(vec) - num_to_remove)), None)

\* an interior span of a vector is cleared: the tail becomes a new entry
clear_interior(m, start, end) ==
    LET vec == m[start.key]
    IN  IF end.offset + 1 > Len(vec) THEN Panic(m)
        ELSE LET parts == split_off(vec, end.offset + 1)
                 kept == [m EXCEPT ![start.key] = truncate(parts[1], start.offset)]
                 new_key == key_after(end)
             IN  IF new_key = None THEN Panic(kept)
                 ELSE Ok(btree_insert(kept, new_key[1], parts[2]), None)

\* start.key == end.key: the removal is in a single region
clear_single(m, start, end) ==
    IF start.key \notin DOMAIN m THEN Panic(m)
    ELSE IF Len(m[start.key]) = 0 THEN Panic(m)
    ELSE LET vec == m[start.key]
             at_front == start.offset = 0
             at_back == end.offset = Len(vec) - 1
         IN  IF at_front /\ at_back THEN Ok(btree_remove(m, start.key), None)
             ELSE IF at_back THEN Ok([m EXCEPT ![start.key] = truncate(vec, start.offset)], None)
             ELSE IF at_front THEN clear_front(m, end)
             ELSE clear_interior(m, start, end)

\* handle the start region: remove it, or remove its tail
clear_start_region_keep(m, start) == Ok(m, None)

clear_start_region(m, start) ==
    IF start.key \notin DOMAIN m THEN Panic(m)
    ELSE IF start.offset = 0 THEN Ok(btree_remove(m, start.key), None)
    ELSE Ok([m EXCEPT ![start.key] = truncate(@, start.offset)], None)

\* the while loop: remove every region strictly between start.key and end.key
RECURSIVE clear_between(_, _, _)
clear_between(m, start, end) ==
    LET S == {k \in DOMAIN m : start.key < k /\ k < end.key}
    IN  IF S = {} THEN m
        ELSE clear_between(btree_remove(m, SetMin(S)), start, end)

\* handle the end region: remove it, or remove its front
clear_end_region(m, end) ==
    IF end.key \notin DOMAIN m THEN Panic(m)
    ELSE IF Len(m[end.key]) = 0 THEN Panic(m)
    ELSE IF Len(m[end.key]) - 1 = end.offset THEN Ok(btree_remove(m, end.key), None)
    ELSE clear_front(m, end)

clear_multi(m, start, end) ==
    LET s == clear_start_region(m, start)
    IN  IF s.panic THEN s
        ELSE clear_end_region(clear_between(s.map, start, end), end)

clear_range(m, start_bound, end_bound) ==
    LET range == find_range(m, start_bound, end_bound)
    IN  IF range = None THEN Ok(m, None)
        ELSE IF range = Overflowed THEN Panic(m)
        ELSE IF range[1].start.key = range[1].end.key
             THEN clear_single(m, range[1].start, range[1].end)
             ELSE clear_multi(m, range[1].start, range[1].end)

clear_with_len_no_overflow(m, start, n) ==
    LET end == add_usize(start, n)
    IN  IF end = None THEN Ok(m, None)
        ELSE clear_range(m, Included(start), Excluded(end[1]))

clear_with_len(m, start, n) ==
    LET end == add_usize(start, n)
    IN  IF end = None THEN clear_range(m, Included(start), Unbounded)
        ELSE clear_range(m, Included(start), Excluded(end[1]))

\* ---------------------------------------------------------------- insert_slice
RECURSIVE insert_slice_stop_early(_, _, _)
insert_slice_stop_early(m, start_key, values) ==
    IF values = <<>> THEN Ok(m, None)
    ELSE LET key == add_one(start_key)
         IN  IF key = None THEN Ok(m, None)
             ELSE LET r == insert(m, start_key, Head(values))
                  IN  IF r.panic THEN Panic(r.map)
                      ELSE insert_slice_stop_early(r.map, key[1], Tail(values))

RECURSIVE insert_slice(_, _, _)
insert_slice(m, start_key, values) ==
    IF values = <<>> THEN Ok(m, None)
    ELSE LET r == insert(m, start_key, Head(values))
             key == add_one(start_key)
         IN  IF r.panic THEN Panic(r.map)
             ELSE IF key = None THEN Ok(r.map, None)
             ELSE insert_slice(r.map, key[1], Tail(values))

\* ---------------------------------------------------------------- get_slice
\* slice.chunks_exact(chunk_size).next(); chunks_exact panics on a chunk size
\* of zero
chunks_next(m, slice, chunk_size) ==
    IF chunk_size = 0 THEN Panic(m)
    ELSE IF Len(slice) = 0 THEN Ok(m, None)
    ELSE Ok(m, Some(SubSeq(slice, 1, Min(chunk_size, Len(slice)))))

chunks_exact_next(m, slice, chunk_size) ==
    IF chunk_size = 0 THEN Panic(m)
    ELSE IF Len(slice) >= chunk_size THEN Ok(m, Some(SubSeq(slice, 1, chunk_size)))
    ELSE Ok(m, None)

\* the length asked for by the end bound, none when it is not defined
slice_length(slice, start, end_bound) ==
    IF end_bound.kind = "Unbounded" THEN Some(Len(slice))
    ELSE IF end_bound.kind = "Excluded" THEN difference(end_bound.key, start)
    ELSE LET d == difference(end_bound.key, start)
         IN  IF d = None THEN None ELSE Some(d[1] + 1)

get_slice(m, start, end_bound) ==
    LET entry == range_to_next_back(m, start)
    IN  IF entry = None THEN Ok(m, None)
        ELSE LET offset == difference(start, entry[1])
             IN  IF offset = None THEN Ok(m, None)
                 ELSE IF ~(offset[1] < Len(m[entry[1]])) THEN Ok(m, None)
                 ELSE LET slice == SubSeq(m[entry[1]], offset[1] + 1, Len(m[entry[1]]))
                          length == slice_length(slice, start, end_bound)
                      IN  IF length = None THEN Ok(m, None)
                          ELSE chunks_exact_next(m, slice, length[1])

get_slice_with_len_by_key(m, key, n) ==
    LET end == add_usize(key, n)
    IN  IF end = None THEN Ok(m, None) ELSE get_slice(m, key, Excluded(end[1]))

get_slice_with_len(m, key, n) ==
    LET whole == get_slice(m, key, Unbounded)
    IN  IF whole.panic THEN whole
        ELSE IF whole.ret = None THEN Ok(m, None)
        ELSE chunks_exact_next(m, whole.ret[1], n)

\* ---------------------------------------------------------------- iterators
\* btree_map::Iter / IntoIter / Range: the start keys still to come, ascending;
\* next() takes the first of them and next_back() the last
RECURSIVE btree_iter(_)
btree_iter(S) ==
    IF S = {} THEN <<>>
    ELSE LET s == SetMin(S) IN <<s>> \o btree_iter(S \ {s})

\* the three sources of an iterator: a cursor (key, values still to come) at
\* each end, and in between the iterator over the regions not yet started
Cursors(front_entry, map_iter, back_entry) ==
    [front_entry |-> front_entry, map_iter |-> map_iter, back_entry |-> back_entry]

\* what next() / next_back() leave behind: the sources, the returned item, and
\* whether an unwrap() panicked
Yield(c, ret) == [cursors |-> c, ret |-> ret, panic |-> FALSE]
YieldPanic(c) == [cursors |-> c, ret |-> None, panic |-> TRUE]

\* extract: |(k, v)| (*k, v.iter())
extract(m, k) == <<k, m[k]>>

\* map_iter.as_mut().map(|iter| iter.next()).flatten(): is there a region left
has_next(c) == c.map_iter # None /\ c.map_iter[1] # <<>>

\* next_impl, "attempt to consume a (K, V) from front_entry"
next_consume_same_key(c) ==
    LET key == c.front_entry[1][1]
        val_iter == c.front_entry[1][2]
    IN  IF Len(val_iter) - 1 # 0
        THEN Yield([c EXCEPT !.front_entry = Some(<<key, Tail(val_iter)>>)],
                   Some(<<key, Head(val_iter)>>))
        ELSE Yield([c EXCEPT !.front_entry = None], Some(<<key, Head(val_iter)>>))

next_consume_eager(c) ==
    LET key == c.front_entry[1][1]
        val_iter == c.front_entry[1][2]
        item == <<key, Head(val_iter)>>
        above == add_one(key)
    IN  IF above = None THEN YieldPanic(c)
        ELSE IF Len(val_iter) - 1 # 0
        THEN Yield([c EXCEPT !.front_entry = Some(<<above[1], Tail(val_iter)>>)], Some(item))
        ELSE Yield([c EXCEPT !.front_entry = None], Some(item))

next_consume(c) ==
    LET key == c.front_entry[1][1]
        val_iter == c.front_entry[1][2]
        item == <<key, Head(val_iter)>>
    IN  IF Len(val_iter) - 1 # 0
        THEN LET above == add_one(key)
             IN  IF above = None THEN YieldPanic(c)
                 ELSE Yield([c EXCEPT !.front_entry = Some(<<above[1], Tail(val_iter)>>)],
                            Some(item))
        ELSE Yield([c EXCEPT !.front_entry = None], Some(item))

\* next_impl, "attempt to refill front_entry"
next_refill_no_adopt(m, c) ==
    IF has_next(c)
    THEN [c EXCEPT !.front_entry = Some(extract(m, Head(c.map_iter[1]))),
                   !.map_iter = Some(Tail(c.map_iter[1]))]
    ELSE [c EXCEPT !.front_entry = None]

next_refill_back_first(m, c) ==
    IF c.back_entry # None
    THEN [c EXCEPT !.front_entry = c.back_entry, !.back_entry = None]
    ELSE IF has_next(c)
    THEN [c EXCEPT !.front_entry = Some(extract(m, Head(c.map_iter[1]))),
                   !.map_iter = Some(Tail(c.map_iter[1]))]
    ELSE [c EXCEPT !.front_entry = None]

next_refill(m, c) ==
    IF has_next(c)
    THEN [c EXCEPT !.front_entry = Some(extract(m, Head(c.map_iter[1]))),
                   !.map_iter = Some(Tail(c.map_iter[1]))]
    ELSE [c EXCEPT !.front_entry = c.back_entry, !.back_entry = None]

RECURSIVE next_impl(_, _)
next_impl(m, c) ==
    IF c.front_entry # None /\ c.front_entry[1][2] # <<>>
    THEN next_consume(c)
    ELSE LET refilled == next_refill(m, c)
         IN  IF refilled.front_entry = None THEN Yield(refilled, None)
             ELSE next_impl(m, refilled)

\* next_back_impl, "attempt to consume a (K, V) from back_entry"
next_back_consume_start_key(c) ==
    LET key == c.back_entry[1][1]
        val_iter == c.back_entry[1][2]
        rest == SubSeq(val_iter, 1, Len(val_iter) - 1)
    IN  Yield([c EXCEPT !.back_entry = Some(<<key, rest>>)],
              Some(<<key, val_iter[Len(val_iter)]>>))

next_back_consume(c) ==
    LET key == c.back_entry[1][1]
        val_iter == c.back_entry[1][2]
        rest == SubSeq(val_iter, 1, Len(val_iter) - 1)
        item_key == add_usize(key, Len(rest))
    IN  IF item_key = None THEN YieldPanic(c)
        ELSE Yield([c EXCEPT !.back_entry = Some(<<key, rest>>)],
                   Some(<<item_key[1], val_iter[Len(val_iter)]>>))

\* next_back_impl, "attempt to refill back_entry"
next_back_refill_no_take(m, c) ==
    IF has_next(c)
    THEN LET keys == c.map_iter[1]
         IN  [c EXCEPT !.back_entry = Some(extract(m, keys[Len(keys)])),
                       !.map_iter = Some(SubSeq(keys, 1, Len(keys) - 1))]
    ELSE [c EXCEPT !.back_entry = c.front_entry]

next_back_refill(m, c) ==
    IF has_next(c)
    THEN LET keys == c.map_iter[1]
         IN  [c EXCEPT !.back_entry = Some(extract(m, keys[Len(keys)])),
                       !.map_iter = Some(SubSeq(keys, 1, Len(keys) - 1))]
    ELSE [c EXCEPT !.back_entry = c.front_entry, !.front_entry = None]

RECURSIVE next_back_impl(_, _)
next_back_impl(m, c) ==
    IF c.back_entry # None /\ c.back_entry[1][2] # <<>>
    THEN next_back_consume(c)
    ELSE LET refilled == next_back_refill(m, c)
         IN  IF refilled.back_entry = None THEN Yield(refilled, None)
             ELSE next_back_impl(m, refilled)

\* IntoIterator::into_iter for the map, &map and &mut map
into_iter(m) == Cursors(None, Some(btree_iter(DOMAIN m)), None)

\* ContiguousMap::iter / iter_mut
iter(m) == into_iter(m)

\* Range::new / RangeMut::new, both ends in one region
Range_new_single_to_end(m, start, end) ==
    LET front_key == add_usize(start.key, start.offset)
    IN  IF front_key = None \/ start.key \notin DOMAIN m
        THEN YieldPanic(Cursors(None, None, None))
        ELSE LET vec == m[start.key]
             IN  IF start.offset > end.offset + 1 \/ end.offset >= Len(vec)
                 THEN YieldPanic(Cursors(None, None, None))
                 ELSE Yield(Cursors(Some(<<front_key[1],
                                           SubSeq(vec, start.offset + 1, Len(vec))>>),
                                    None, None), None)

Range_new_single(m, start, end) ==
    LET front_key == add_usize(start.key, start.offset)
    IN  IF front_key = None \/ start.key \notin DOMAIN m
        THEN YieldPanic(Cursors(None, None, None))
        ELSE LET vec == m[start.key]
             IN  IF start.offset > end.offset + 1 \/ end.offset >= Len(vec)
                 THEN YieldPanic(Cursors(None, None, None))
                 ELSE Yield(Cursors(Some(<<front_key[1],
                                           SubSeq(vec, start.offset + 1, end.offset + 1)>>),
                                    None, None), None)

\* Range::new / RangeMut::new, the ends in two regions
Range_new_multi(m, start, end) ==
    LET regions == btree_iter({s \in DOMAIN m : start.key <= s /\ s <= end.key})
        front_key == add_usize(start.key, start.offset)
    IN  IF start.key > end.key \/ front_key = None \/ Len(regions) < 2
        THEN YieldPanic(Cursors(None, None, None))
        ELSE LET front_vec == m[regions[1]]
                 back_vec == m[regions[Len(regions)]]
             IN  IF start.offset > Len(front_vec) \/ end.offset >= Len(back_vec)
                 THEN YieldPanic(Cursors(None, None, None))
                 ELSE Yield(Cursors(
                         Some(<<front_key[1],
                                SubSeq(front_vec, start.offset + 1, Len(front_vec))>>),
                         Some(SubSeq(regions, 2, Len(regions) - 1)),
                         Some(<<end.key, SubSeq(back_vec, 1, end.offset + 1)>>)), None)

Range_new(m, start, end) ==
    IF start.key = end.key THEN Range_new_single(m, start, end)
    ELSE Range_new_multi(m, start, end)

\* Range::new_empty / RangeMut::new_empty
new_empty == Yield(Cursors(None, None, None), None)

\* ContiguousMap::range / range_mut: the range is resolved once by find_range
range(m, start_bound, end_bound) ==
    LET found == find_range(m, start_bound, end_bound)
    IN  IF found = None THEN new_empty
        ELSE IF found = Overflowed THEN YieldPanic(Cursors(None, None, None))
        ELSE Range_new(m, found[1].start, found[1].end)

\* IterVec::new / IterSlice::new / IterSliceMut::new: inner is the iterator of
\* the BTreeMap
iter_slice(m) == btree_iter(DOMAIN m)

\* IterSlice::next: self.inner.next().map(|(k, v)| (k, &v[..]))
iter_slice_next(m, inner) ==
    IF inner = <<>> THEN [inner |-> inner, ret |-> None]
    ELSE [inner |-> Tail(inner), ret |-> Some(<<Head(inner), m[Head(inner)]>>)]

\* IterSlice::next_back: self.inner.next_back().map(|(k, v)| (k, &v[..]))
iter_slice_next_back(m, inner) ==
    IF inner = <<>> THEN [inner |-> inner, ret |-> None]
    ELSE [inner |-> SubSeq(inner, 1, Len(inner) - 1),
          ret |-> Some(<<inner[Len(inner)], m[inner[Len(inner)]]>>)]

\* ---------------------------------------------------------------- state
VARIABLES
    map,        \* ContiguousMap::map, the BTreeMap<K, Vec<V>>
    prev,       \* the store as it was when the last call started
    lastCall,   \* the last call: its name, its arguments and what it returned
    pc,         \* "idle": between two calls; "returned": a call has just returned
    panicked,   \* a call has panicked
    iterator    \* the iterator that borrows the map, and what it has yielded

vars == <<map, prev, lastCall, pc, panicked, iterator>>

Call(op) == [op |-> op, key |-> 0, value |-> 0, values |-> <<>>,
             start |-> Unbounded, end |-> Unbounded, n |-> 0, ret |-> None]

RECURSIVE SeqsUpTo(_)
SeqsUpTo(n) ==
    IF n = 0 THEN {<<>>}
    ELSE LET shorter == SeqsUpTo(n - 1)
         IN  shorter \cup {Append(q, v) : q \in {x \in shorter : Len(x) = n - 1}, v \in Values}

\* no iterator is alive
NoIter ==
    [kind |-> "none", cursors |-> Cursors(None, None, None), inner |-> <<>>,
     span |-> {}, yielded_front |-> <<>>, yielded_back |-> <<>>,
     called |-> FALSE, ret |-> None, after_none |-> FALSE]

Init ==
    /\ map = EmptyMap
    /\ prev = EmptyMap
    /\ lastCall = Call("new")
    /\ pc = "idle"
    /\ panicked = FALSE
    /\ iterator = NoIter

\* one call of a method of the map, from its start to its return
Finish(call, r) ==
    /\ pc = "idle"
    /\ ~panicked
    /\ prev' = map
    /\ map' = r.map
    /\ panicked' = r.panic
    /\ lastCall' = [call EXCEPT !.ret = r.ret]
    /\ pc' = "returned"
    /\ UNCHANGED iterator

Insert ==
    /\ pc = "idle"
    /\ \E key \in Keys, value \in Values :
           Finish([Call("insert") EXCEPT !.key = key, !.value = value],
                  insert(map, key, value))

InsertSlice ==
    /\ pc = "idle"
    /\ \E start_key \in Keys, values \in SeqsUpTo(MaxSliceLen) :
           Finish([Call("insert_slice") EXCEPT !.key = start_key, !.values = values],
                  insert_slice(map, start_key, values))

Remove ==
    /\ pc = "idle"
    /\ \E key \in Keys :
           Finish([Call("remove") EXCEPT !.key = key], remove(map, key))

Clear == Finish(Call("clear"), clear(map))

ClearRange ==
    /\ pc = "idle"
    /\ \E start_bound \in Bounds, end_bound \in Bounds :
           Finish([Call("clear_range") EXCEPT !.start = start_bound, !.end = end_bound],
                  clear_range(map, start_bound, end_bound))

ClearWithLen ==
    /\ pc = "idle"
    /\ \E start_key \in Keys, n \in 0..MaxClearLen :
           Finish([Call("clear_with_len") EXCEPT !.key = start_key, !.n = n],
                  clear_with_len(map, start_key, n))

GetSlice ==
    /\ pc = "idle"
    /\ \E start_key \in Keys, end_bound \in Bounds :
           Finish([Call("get_slice") EXCEPT !.key = start_key, !.end = end_bound],
                  get_slice(map, start_key, end_bound))

GetSliceWithLen ==
    /\ pc = "idle"
    /\ \E key \in Keys, n \in 0..MaxGetLen :
           Finish([Call("get_slice_with_len") EXCEPT !.key = key, !.n = n],
                  get_slice_with_len(map, key, n))

\* the caller has looked at the result and goes on to its next call
Return ==
    /\ pc = "returned"
    /\ ~panicked
    /\ pc' = "idle"
    /\ prev' = map
    /\ lastCall' = Call("none")
    /\ UNCHANGED <<map, panicked, iterator>>

Next ==
    \/ Insert
    \/ InsertSlice
    \/ Remove
    \/ Clear
    \/ ClearRange
    \/ ClearWithLen
    \/ GetSlice
    \/ GetSliceWithLen
    \/ Return

Spec == Init /\ [][Next]_vars

\* ------------------------------------------------- the map and its iterators
\* a call that changes the map, while no iterator borrows it
Mutate(r) ==
    /\ pc = "idle"
    /\ ~panicked
    /\ iterator.kind = "none"
    /\ map' = r.map
    /\ prev' = r.map
    /\ panicked' = r.panic
    /\ UNCHANGED <<lastCall, pc, iterator>>

MutInsert ==
    /\ pc = "idle" /\ iterator.kind = "none"
    /\ \E key \in Keys, value \in Values : Mutate(insert(map, key, value))

MutInsertSlice ==
    /\ pc = "idle" /\ iterator.kind = "none"
    /\ \E start_key \in Keys, values \in SeqsUpTo(MaxSliceLen) :
           Mutate(insert_slice(map, start_key, values))

MutRemove ==
    /\ pc = "idle" /\ iterator.kind = "none"
    /\ \E key \in Keys : Mutate(remove(map, key))

MutClear == Mutate(clear(map))

MutClearRange ==
    /\ pc = "idle" /\ iterator.kind = "none"
    /\ \E start_bound \in Bounds, end_bound \in Bounds :
           Mutate(clear_range(map, start_bound, end_bound))

MutClearWithLen ==
    /\ pc = "idle" /\ iterator.kind = "none"
    /\ \E start_key \in Keys, n \in 0..MaxClearLen :
           Mutate(clear_with_len(map, start_key, n))

\* the keys a range covers
KeysIn(start_bound, end_bound) ==
    {k \in Keys :
        /\ start_bound.kind = "Included" => start_bound.key <= k
        /\ start_bound.kind = "Excluded" => start_bound.key < k
        /\ end_bound.kind = "Included" => k <= end_bound.key
        /\ end_bound.kind = "Excluded" => k < end_bound.key}

\* an iterator is made and borrows the map
Borrow(kind, made, inner, span) ==
    /\ pc = "idle"
    /\ ~panicked
    /\ iterator.kind = "none"
    /\ iterator' = [NoIter EXCEPT !.kind = kind, !.cursors = made.cursors,
                                  !.inner = inner, !.span = span]
    /\ panicked' = made.panic
    /\ UNCHANGED <<map, prev, lastCall, pc>>

IterCall == Borrow("iter", Yield(iter(map), None), <<>>, Keys)

RangeCall ==
    /\ pc = "idle" /\ iterator.kind = "none"
    /\ \E start_bound \in Bounds, end_bound \in Bounds :
           Borrow("range", range(map, start_bound, end_bound), <<>>,
                  KeysIn(start_bound, end_bound))

IterSliceCall ==
    Borrow("slice", Yield(Cursors(None, None, None), None), iter_slice(map), Keys)

\* one call of next() or next_back() on the iterator
Step(cursors, inner, ret, panic, at_front) ==
    /\ ~panicked
    /\ iterator' =
         [iterator EXCEPT
            !.cursors = cursors,
            !.inner = inner,
            !.yielded_front = IF at_front /\ ret # None THEN Append(@, ret[1]) ELSE @,
            !.yielded_back = IF ~at_front /\ ret # None THEN Append(@, ret[1]) ELSE @,
            !.called = TRUE,
            !.ret = ret,
            !.after_none = @ \/ (iterator.called /\ iterator.ret = None)]
    /\ panicked' = panic
    /\ UNCHANGED <<map, prev, lastCall, pc>>

IterNext ==
    /\ iterator.kind \in {"iter", "range"}
    /\ LET r == next_impl(map, iterator.cursors)
       IN  Step(r.cursors, iterator.inner, r.ret, r.panic, TRUE)

IterNextBack ==
    /\ iterator.kind \in {"iter", "range"}
    /\ LET r == next_back_impl(map, iterator.cursors)
       IN  Step(r.cursors, iterator.inner, r.ret, r.panic, FALSE)

IterSliceNext ==
    /\ iterator.kind = "slice"
    /\ LET r == iter_slice_next(map, iterator.inner)
       IN  Step(iterator.cursors, r.inner, r.ret, FALSE, TRUE)

IterSliceNextBack ==
    /\ iterator.kind = "slice"
    /\ LET r == iter_slice_next_back(map, iterator.inner)
       IN  Step(iterator.cursors, r.inner, r.ret, FALSE, FALSE)

\* the iterator is dropped and the borrow ends
IterDrop ==
    /\ ~panicked
    /\ iterator.kind # "none"
    /\ iterator' = NoIter
    /\ UNCHANGED <<map, prev, lastCall, pc, panicked>>

NextIter ==
    \/ MutInsert
    \/ MutInsertSlice
    \/ MutRemove
    \/ MutClear
    \/ MutClearRange
    \/ MutClearWithLen
    \/ IterCall
    \/ RangeCall
    \/ IterSliceCall
    \/ IterNext
    \/ IterNextBack
    \/ IterSliceNext
    \/ IterSliceNextBack
    \/ IterDrop

SpecIter == Init /\ [][NextIter]_vars

\* ------------------------------------------------- index resolution and laws
\* the index lookups, on a map reached by any calls; an overflow of `len() - 1`
\* is a panic
Lookup(op, key, index) ==
    Finish([Call(op) EXCEPT !.key = key],
           IF index = Overflowed THEN Panic(map) ELSE Ok(map, index))

FindAtMost ==
    /\ pc = "idle"
    /\ \E key \in Keys : Lookup("find_at_most", key, find_at_most(map, key))

FindAtLeast ==
    /\ pc = "idle"
    /\ \E key \in Keys : Lookup("find_at_least", key, find_at_least(map, key))

FindLess ==
    /\ pc = "idle"
    /\ \E key \in Keys : Lookup("find_less", key, find_less(map, key))

FindMore ==
    /\ pc = "idle"
    /\ \E key \in Keys : Lookup("find_more", key, find_more(map, key))

NextFind ==
    \/ MutInsert
    \/ MutInsertSlice
    \/ MutRemove
    \/ MutClear
    \/ MutClearRange
    \/ MutClearWithLen
    \/ FindAtMost
    \/ FindAtLeast
    \/ FindLess
    \/ FindMore
    \/ Insert
    \/ Remove
    \/ Return

SpecFind == Init /\ [][NextFind]_vars

\* ------------------------------------------------- the arithmetic of i8 keys
KeyAddOne ==
    /\ pc = "idle"
    /\ \E i \in I8 :
           Finish([Call("add_one") EXCEPT !.key = i], Ok(map, signed_add_one(i)))

KeyDifference ==
    /\ pc = "idle"
    /\ \E i \in I8, j \in I8 :
           Finish([Call("difference") EXCEPT !.key = i, !.n = j],
                  Ok(map, signed_difference(i, j)))

KeyAddUsize ==
    /\ pc = "idle"
    /\ \E i \in I8, num \in 0..MaxNum :
           \E r \in signed_add_usize(i, num) :
               Finish([Call("add_usize") EXCEPT !.key = i, !.n = num],
                      [map |-> map, ret |-> r.ret, panic |-> r.panic])

NextKey ==
    \/ KeyAddOne
    \/ KeyDifference
    \/ KeyAddUsize
    \/ Return

SpecKey == Init /\ [][NextKey]_vars

\* ---------------------------------------------------------------- properties
Returned(op) == pc = "returned" /\ lastCall.op = op

\* the keys that have a value in m
Present(m) == {k \in Keys : get(m, k) # None}

\* the places (region start, offset) of m that hold key k
Covering(m, k) ==
    {p \in (DOMAIN m) \X (0..KeyMax) : p[2] < Len(m[p[1]]) /\ p[1] + p[2] = k}

\* C1: after every sequence of calls any two regions are separated by at least
\* one absent key (s1 + n1 < s2), and every present key lies in exactly one
\* region at exactly one offset.
C1_RegionsSeparated ==
    /\ \A s1, s2 \in DOMAIN map : s1 < s2 => s1 + Len(map[s1]) < s2
    /\ \A k \in Keys : Cardinality(Covering(map, k)) <= 1
    /\ \A k \in Keys : get(map, k) # None <=> Cardinality(Covering(map, k)) = 1

\* an insert made a new region one absent key after an existing one
C1_Witness ==
    /\ Returned("insert")
    /\ num_contiguous_regions(map) = num_contiguous_regions(prev) + 1
    /\ \E s \in DOMAIN map : s + Len(map[s]) + 1 = lastCall.key

\* C2: no stored region has an empty value sequence; a region that loses its
\* last value is deleted in the same call.
C2_NoEmptyRegion == \A s \in DOMAIN map : Len(map[s]) >= 1

\* a remove took the only value of a region, and the region is gone
C2_Witness ==
    /\ Returned("remove")
    /\ lastCall.key \in DOMAIN prev
    /\ Len(prev[lastCall.key]) = 1
    /\ lastCall.key \notin DOMAIN map
    /\ DOMAIN map # {}

\* C3: len() is the sum of the region lengths and the number of keys with a
\* value; num_contiguous_regions() is the number of regions.
C3_LenCountsPresentKeys ==
    /\ len(map) = Cardinality(Present(map))
    /\ len(map) = Cardinality({p \in (DOMAIN map) \X (0..KeyMax) : p[2] < Len(map[p[1]])})
    /\ num_contiguous_regions(map) = Cardinality(DOMAIN map)

\* a range clear took some but not all values of a map of several regions
C3_Witness ==
    /\ Returned("clear_range")
    /\ num_contiguous_regions(map) >= 2
    /\ len(map) >= 3
    /\ len(map) < len(prev)

\* C4: right after insert(k, v), get(k) is Some(v), whichever path insert took.
C4_InsertGet ==
    Returned("insert") => ~panicked /\ get(map, lastCall.key) = Some(lastCall.value)

\* an insert appended to the region ending at k-1 with nothing at k+1
C4_Witness ==
    /\ Returned("insert")
    /\ lastCall.key >= 1
    /\ lastCall.key < KeyMax
    /\ get(prev, lastCall.key) = None
    /\ get(prev, lastCall.key - 1) # None
    /\ get(prev, lastCall.key + 1) = None

\* C5: insert returns Some(old) exactly when the key was present, old being
\* its value before, and None when it was absent; len() grows by 1 on None
\* and stays on Some.
C5_InsertReturn ==
    Returned("insert") =>
        /\ lastCall.ret = get(prev, lastCall.key)
        /\ len(map) = len(prev) + (IF lastCall.ret = None THEN 1 ELSE 0)

\* an insert replaced a value by a different one
C5_Witness ==
    /\ Returned("insert")
    /\ lastCall.ret # None
    /\ lastCall.ret # Some(lastCall.value)
    /\ len(map) >= 2

\* C6: insert(k, v) changes no key other than k, also when it merges with the
\* region starting at k+1.
C6_InsertFrame ==
    Returned("insert") =>
        \A j \in Keys \ {lastCall.key} : get(map, j) = get(prev, j)

\* an insert in front of a region of two values, with nothing at k-1
C6_Witness ==
    /\ Returned("insert")
    /\ lastCall.ret = None
    /\ lastCall.key \in DOMAIN map
    /\ Len(map[lastCall.key]) >= 3
    /\ num_contiguous_regions(map) >= 2

HasValue(m, k) == k \in Keys /\ get(m, k) # None

\* C7: insert on an absent key changes the number of regions by +1 with no
\* present neighbour, 0 with one, -1 with both; insert on a present key leaves
\* it unchanged.
C7_InsertRegionCount ==
    Returned("insert") =>
        num_contiguous_regions(map) - num_contiguous_regions(prev) =
            IF get(prev, lastCall.key) # None THEN 0
            ELSE 1 - (IF HasValue(prev, lastCall.key - 1) THEN 1 ELSE 0)
                   - (IF HasValue(prev, lastCall.key + 1) THEN 1 ELSE 0)

\* an insert joined the region ending at k-1 and the region starting at k+1
C7_Witness ==
    /\ Returned("insert")
    /\ get(prev, lastCall.key) = None
    /\ HasValue(prev, lastCall.key - 1)
    /\ HasValue(prev, lastCall.key + 1)
    /\ num_contiguous_regions(map) = num_contiguous_regions(prev) - 1

\* C8: remove(k) on a present key returns its value; afterwards get(k) is None
\* and len() is 1 smaller.
C8_RemovePresent ==
    Returned("remove") /\ get(prev, lastCall.key) # None =>
        /\ ~panicked
        /\ lastCall.ret = get(prev, lastCall.key)
        /\ get(map, lastCall.key) = None
        /\ len(map) = len(prev) - 1

\* a remove took the first key of a region of at least two values
C8_Witness ==
    /\ Returned("remove")
    /\ lastCall.key \in DOMAIN prev
    /\ Len(prev[lastCall.key]) >= 2
    /\ lastCall.ret # None

\* C9: remove(k) on an absent key returns None and leaves regions and len()
\* as they were.
C9_RemoveAbsent ==
    Returned("remove") /\ get(prev, lastCall.key) = None =>
        /\ ~panicked
        /\ lastCall.ret = None
        /\ map = prev
        /\ len(map) = len(prev)

\* a remove of a key in the gap between two regions
C9_Witness ==
    /\ Returned("remove")
    /\ get(prev, lastCall.key) = None
    /\ \E s \in DOMAIN prev : s < lastCall.key
    /\ \E s \in DOMAIN prev : s > lastCall.key

\* C10: remove(k) changes no key other than k, also when it relabels or
\* splits the region.
C10_RemoveFrame ==
    Returned("remove") =>
        \A j \in Keys \ {lastCall.key} : get(map, j) = get(prev, j)

\* a remove split a region in two
C10_Witness ==
    /\ Returned("remove")
    /\ lastCall.ret # None
    /\ HasValue(prev, lastCall.key - 1)
    /\ HasValue(prev, lastCall.key + 1)
    /\ num_contiguous_regions(map) = num_contiguous_regions(prev) + 1

\* ---------------------------------------------------------------- remove, by case
\* the start key of the region of m that holds key k (k must be present)
RegionOf(m, k) == CHOOSE s \in DOMAIN m : s <= k /\ k < s + Len(m[s])

LastKey(m, s) == s + Len(m[s]) - 1

\* m with the region at s replaced by the regions of the function g
Replace(m, s, g) ==
    [k \in ((DOMAIN m) \ {s}) \cup DOMAIN g |-> IF k \in DOMAIN g THEN g[k] ELSE m[k]]

Only(k, vec) == [x \in {k} |-> vec]

\* C11: remove(k) at an edge of a region: the only key of a region deletes the
\* region (-1 region); the first key of a longer region makes it start at k+1
\* with the remaining values in order (same count); the last key of a longer
\* region drops only its last value under the same start key (same count).
C11_RemoveEdge ==
    Returned("remove") /\ get(prev, lastCall.key) # None =>
        LET k == lastCall.key
            s == RegionOf(prev, k)
            n == Len(prev[s])
        IN  /\ (k = s /\ n = 1) =>
                /\ map = Replace(prev, s, EmptyMap)
                /\ num_contiguous_regions(map) = num_contiguous_regions(prev) - 1
            /\ (k = s /\ n >= 2) =>
                /\ map = Replace(prev, s, Only(k + 1, Tail(prev[s])))
                /\ num_contiguous_regions(map) = num_contiguous_regions(prev)
            /\ (k # s /\ k = LastKey(prev, s)) =>
                /\ map = Replace(prev, s, Only(s, SubSeq(prev[s], 1, n - 1)))
                /\ num_contiguous_regions(map) = num_contiguous_regions(prev)

\* a remove took the last key of a region of at least two values, next to
\* another region
C11_Witness ==
    /\ Returned("remove")
    /\ lastCall.ret # None
    /\ lastCall.key \notin DOMAIN prev
    /\ get(prev, lastCall.key + 1) = None
    /\ num_contiguous_regions(prev) >= 2
    /\ num_contiguous_regions(map) = num_contiguous_regions(prev)

\* C12: remove(k) of an interior key of the region (s, values) replaces it by
\* (s, values of s..k-1) and (k+1, values after k), returns the value at k and
\* raises the number of regions by 1.
C12_RemoveSplit ==
    Returned("remove") /\ get(prev, lastCall.key) # None =>
        LET k == lastCall.key
            s == RegionOf(prev, k)
            n == Len(prev[s])
        IN  (s < k /\ k < LastKey(prev, s)) =>
                /\ map = Replace(prev, s,
                                 [x \in {s, k + 1} |->
                                     IF x = s THEN SubSeq(prev[s], 1, k - s)
                                     ELSE SubSeq(prev[s], k - s + 2, n)])
                /\ lastCall.ret = Some(prev[s][k - s + 1])
                /\ num_contiguous_regions(map) = num_contiguous_regions(prev) + 1

\* a remove of an interior key that leaves two values on one side
C12_Witness ==
    /\ Returned("remove")
    /\ lastCall.ret # None
    /\ lastCall.key - 1 \in DOMAIN map
    /\ lastCall.key + 1 \in DOMAIN map
    /\ Len(map[lastCall.key + 1]) >= 2

\* ---------------------------------------------------------------- clear_range
\* key k lies inside the range with the given bounds
InRange(k, start_bound, end_bound) ==
    /\ start_bound.kind = "Included" => k >= start_bound.key
    /\ start_bound.kind = "Excluded" => k > start_bound.key
    /\ end_bound.kind = "Included" => k <= end_bound.key
    /\ end_bound.kind = "Excluded" => k < end_bound.key

InLastRange(k) == InRange(k, lastCall.start, lastCall.end)

C15_ClearRangeIdempotent ==
    Returned("clear_range") =>
        clear_range(map, lastCall.start, lastCall.end) = Ok(map, None)

\* a clear that removed values from two regions and kept part of each
C15_Witness ==
    /\ Returned("clear_range")
    /\ num_contiguous_regions(prev) = 2
    /\ num_contiguous_regions(map) = 2
    /\ len(map) = len(prev) - 2
    /\ DOMAIN map # DOMAIN prev

\* C16: clear_range(r) changes nothing and does not panic when no present key
\* lies in r.
C16_ClearRangeNoOp ==
    Returned("clear_range") /\ (\A k \in Present(prev) : ~InLastRange(k)) =>
        /\ ~panicked
        /\ map = prev

\* a clear whose excluded start bound is the maximum key, which is present
C16_Witness ==
    /\ Returned("clear_range")
    /\ lastCall.start = Excluded(KeyMax)
    /\ get(prev, KeyMax) # None
    /\ map = prev

ValuesOf(m, a, b) == [i \in 1..(b - a) |-> get(m, a + i - 1)[1]]

AllPresent(m, a, b) == \A k \in a..(b - 1) : k \in Keys /\ get(m, k) # None

\* what a slice query for the keys a..b-1 has to return
SliceOf(m, a, b) == IF AllPresent(m, a, b) THEN Some(ValuesOf(m, a, b)) ELSE None

\* C18: get_slice(a..b) with a < b, and get_slice(a..=b-1), return Some(s)
\* exactly when every key of [a, b) is present, s being their values in
\* order; None otherwise.
C18_GetSliceRange ==
    Returned("get_slice") =>
        LET a == lastCall.key
            e == lastCall.end
        IN  /\ (e.kind = "Excluded" /\ a < e.key) =>
                ~panicked /\ lastCall.ret = SliceOf(map, a, e.key)
            /\ (e.kind = "Included" /\ a <= e.key) =>
                ~panicked /\ lastCall.ret = SliceOf(map, a, e.key + 1)

\* a slice of two values from inside a region, ending before the region ends
C18_Witness ==
    /\ Returned("get_slice")
    /\ lastCall.end.kind = "Excluded"
    /\ lastCall.ret # None
    /\ Len(lastCall.ret[1]) = 2
    /\ lastCall.key \notin DOMAIN map
    /\ get(map, lastCall.end.key) # None

\* C19: a slice query of zero length returns None and does not panic:
\* get_slice(k..k) and get_slice_with_len(k, 0) for every key k, and a
\* backwards get_slice(a..b) with b < a.
C19_ZeroLengthSlice ==
    \/ Returned("get_slice") /\ lastCall.end.kind = "Excluded"
                             /\ lastCall.end.key <= lastCall.key
    \/ Returned("get_slice_with_len") /\ lastCall.n = 0
    => ~panicked /\ lastCall.ret = None

\* C20: get_slice(a..) returns the values from a to the end of a's region
\* (None when a is absent); get_slice_with_len(a, n), n >= 1, returns the
\* first n of them exactly when a..a+n-1 are all present, also when a+n is
\* past the maximum key.
C20_GetSliceFrom ==
    /\ Returned("get_slice") /\ lastCall.end.kind = "Unbounded" =>
        /\ ~panicked
        /\ lastCall.ret =
              IF get(map, lastCall.key) = None THEN None
              ELSE LET s == RegionOf(map, lastCall.key)
                   IN  Some(ValuesOf(map, lastCall.key, LastKey(map, s) + 1))
    /\ Returned("get_slice_with_len") /\ lastCall.n >= 1 =>
        /\ ~panicked
        /\ lastCall.ret = SliceOf(map, lastCall.key, lastCall.key + lastCall.n)

\* a slice by length that ends at the maximum key
C20_Witness ==
    /\ Returned("get_slice_with_len")
    /\ lastCall.n >= 2
    /\ lastCall.key + lastCall.n = KeyMax + 1
    /\ lastCall.ret # None

\* ---------------------------------------------------------------- iteration
Reverse(q) == [i \in 1..Len(q) |-> q[Len(q) + 1 - i]]

IsPrefix(p, q) == Len(p) <= Len(q) /\ SubSeq(q, 1, Len(p)) = p

\* the pairs (k, get(k)) of the present keys of S, by ascending key
RECURSIVE Pairs(_, _)
Pairs(m, S) ==
    LET P == Present(m) \cap S
    IN  IF P = {} THEN <<>>
        ELSE LET k == SetMin(P) IN <<<<k, get(m, k)[1]>>>> \o Pairs(m, P \ {k})

Ascending(q) == \A i, j \in 1..Len(q) : i < j => q[i][1] < q[j][1]

Descending(q) == \A i, j \in 1..Len(q) : i < j => q[i][1] > q[j][1]

\* the item (k, v) is the value at some offset of some region of m
AtOffset(m, item) ==
    \E s \in DOMAIN m : \E i \in 1..Len(m[s]) : item[1] = s + i - 1 /\ item[2] = m[s][i]

Exhausted == iterator.called /\ iterator.ret = None

\* what the two ends of the iterator have yielded, as one forward traversal
Yielded == iterator.yielded_front \o Reverse(iterator.yielded_back)

\* C21: calling only next() on iter() / iter_mut() / into_iter() until it
\* returns None yields exactly the pairs (k, get(k)) of the present keys, each
\* once, by strictly ascending key, across the region boundaries.
C21_ForwardTraversal ==
    iterator.kind = "iter" /\ iterator.yielded_back = <<>> =>
        /\ ~panicked
        /\ IsPrefix(iterator.yielded_front, Pairs(map, Keys))
        /\ Ascending(iterator.yielded_front)
        /\ \A i \in 1..Len(iterator.yielded_front) :
               get(map, iterator.yielded_front[i][1]) = Some(iterator.yielded_front[i][2])
        /\ Exhausted => iterator.yielded_front = Pairs(map, Keys)

\* next() has gone through two regions, one of them of several values, to None
C21_Witness ==
    /\ iterator.kind = "iter"
    /\ Exhausted
    /\ iterator.yielded_back = <<>>
    /\ Len(iterator.yielded_front) >= 3
    /\ num_contiguous_regions(map) >= 2
    /\ \E s \in DOMAIN map : Len(map[s]) >= 2 /\ s # SetMax(DOMAIN map)

\* C22: calling only next_back() on a fresh iterator until it returns None
\* yields the exact reverse of the forward traversal, by strictly descending
\* key, each key being its region's start key plus the value's offset.
C22_BackwardTraversal ==
    iterator.kind = "iter" /\ iterator.yielded_front = <<>> =>
        /\ ~panicked
        /\ IsPrefix(iterator.yielded_back, Reverse(Pairs(map, Keys)))
        /\ Descending(iterator.yielded_back)
        /\ \A i \in 1..Len(iterator.yielded_back) : AtOffset(map, iterator.yielded_back[i])
        /\ Exhausted => iterator.yielded_back = Reverse(Pairs(map, Keys))

\* next_back() has gone through two regions, one of several values, to None
C22_Witness ==
    /\ iterator.kind = "iter"
    /\ Exhausted
    /\ iterator.yielded_front = <<>>
    /\ Len(iterator.yielded_back) >= 3
    /\ num_contiguous_regions(map) >= 2
    /\ \E s \in DOMAIN map : Len(map[s]) >= 2

\* C23: under every interleaving of next() and next_back(), the items of
\* next() in call order followed by the items of next_back() in reverse call
\* order never overlap and, once a call has returned None, are exactly the
\* forward traversal; also when the two ends meet inside one region.
C23_Interleaving ==
    iterator.kind = "iter" =>
        /\ ~panicked
        /\ IsPrefix(iterator.yielded_front, Pairs(map, Keys))
        /\ IsPrefix(iterator.yielded_back, Reverse(Pairs(map, Keys)))
        /\ Len(iterator.yielded_front) + Len(iterator.yielded_back) <= len(map)
        /\ Ascending(Yielded)
        /\ \A i \in 1..Len(Yielded) : AtOffset(map, Yielded[i])
        /\ Exhausted => Yielded = Pairs(map, Keys)

\* both ends have yielded values of the same region, which only one of the
\* cursors can have loaded from the region iterator, and a call returned None
C23_Witness ==
    /\ iterator.kind = "iter"
    /\ Exhausted
    /\ num_contiguous_regions(map) >= 2
    /\ \E s \in DOMAIN map :
           /\ Len(map[s]) >= 3
           /\ \E i \in 1..Len(iterator.yielded_front) :
                  RegionOf(map, iterator.yielded_front[i][1]) = s
           /\ \E j \in 1..Len(iterator.yielded_back) :
                  RegionOf(map, iterator.yielded_back[j][1]) = s

\* C24: the iterators are fused: once next() or next_back() has returned None,
\* every later call of either returns None.
C24_Fused == iterator.after_none => iterator.ret = None

\* a call was made after a call that returned None, on an iterator that had
\* yielded values at both ends
C24_Witness ==
    /\ iterator.kind = "iter"
    /\ iterator.after_none
    /\ iterator.ret = None
    /\ iterator.yielded_front # <<>>
    /\ iterator.yielded_back # <<>>

\* ---------------------------------------------------------------- the key maximum
\* insert(s, values[0]), insert(s + 1, values[1]), ... for the keys that exist
RECURSIVE InsertEach(_, _, _, _)
InsertEach(m, s, values, i) ==
    IF i >= Len(values) \/ s + i > KeyMax THEN m
    ELSE InsertEach(insert(m, s + i, values[i + 1]).map, s, values, i + 1)

\* C25: insert_slice(s, values) has the result of insert(s, values[0]),
\* insert(s + 1, values[1]), ... and stops silently, without a panic, after the
\* value written at the maximum key.
C25_InsertSlice ==
    Returned("insert_slice") =>
        LET s == lastCall.key
            values == lastCall.values
        IN  /\ ~panicked
            /\ lastCall.ret = None
            /\ map = InsertEach(prev, s, values, 0)
            /\ \A k \in Keys :
                   get(map, k) = IF s <= k /\ k < s + Len(values)
                                 THEN Some(values[k - s + 1])
                                 ELSE get(prev, k)

\* insert_slice(KeyMax - 1, three values) stored exactly KeyMax - 1 and KeyMax
C25_Witness ==
    /\ Returned("insert_slice")
    /\ lastCall.key = KeyMax - 1
    /\ Len(lastCall.values) = 3
    /\ get(prev, KeyMax) = None
    /\ get(map, KeyMax - 1) = Some(lastCall.values[1])
    /\ get(map, KeyMax) = Some(lastCall.values[2])
    /\ len(map) = len(prev) + 2

\* C26: insert(MAX, v) does not panic or wrap: v is stored at MAX, appended to
\* the region ending at MAX - 1 or as a new region of one value; no region is
\* merged in from beyond MAX and every region ends inside the key domain.
C26_InsertAtMax ==
    Returned("insert") /\ lastCall.key = KeyMax =>
        /\ ~panicked
        /\ get(map, KeyMax) = Some(lastCall.value)
        /\ \A k \in Keys \ {KeyMax} : get(map, k) = get(prev, k)
        /\ \A s \in DOMAIN map : LastKey(map, s) <= KeyMax
        /\ get(prev, KeyMax) = None =>
               IF HasValue(prev, KeyMax - 1)
               THEN LET s == RegionOf(prev, KeyMax - 1)
                    IN  map = [prev EXCEPT ![s] = Append(@, lastCall.value)]
               ELSE map = btree_insert(prev, KeyMax, <<lastCall.value>>)

\* insert(MAX, v) on an absent MAX, with a region at the minimum key
C26_Witness ==
    /\ Returned("insert")
    /\ lastCall.key = KeyMax
    /\ get(prev, KeyMax) = None
    /\ 0 \in DOMAIN prev
    /\ get(map, KeyMax) = Some(lastCall.value)

Regions(m) == [i \in 1..Len(btree_iter(DOMAIN m)) |->
                  <<btree_iter(DOMAIN m)[i], m[btree_iter(DOMAIN m)[i]]>>]

\* the pairs (start + i, values[i]) of a sequence of regions
RECURSIVE Flatten(_)
Flatten(q) ==
    IF q = <<>> THEN <<>>
    ELSE [i \in 1..Len(q[1][2]) |-> <<q[1][1] + i - 1, q[1][2][i]>>] \o Flatten(Tail(q))

\* C28: iter_vec() / iter_slice() / iter_slice_mut() yield one item (start
\* key, values) per region, ascending from next() and descending from
\* next_back(), never an empty sequence, num_contiguous_regions() items in
\* all, and flattened the same pairs as iter().
C28_RegionIterators ==
    iterator.kind = "slice" =>
        /\ ~panicked
        /\ IsPrefix(iterator.yielded_front, Regions(map))
        /\ IsPrefix(iterator.yielded_back, Reverse(Regions(map)))
        /\ Len(iterator.yielded_front) + Len(iterator.yielded_back)
               <= num_contiguous_regions(map)
        /\ \A i \in 1..Len(Yielded) : Yielded[i][2] # <<>>
        /\ Exhausted =>
               /\ Len(Yielded) = num_contiguous_regions(map)
               /\ Yielded = Regions(map)
               /\ Flatten(Yielded) = Pairs(map, Keys)

\* two regions, one of several values, were yielded from both ends until None
C28_Witness ==
    /\ iterator.kind = "slice"
    /\ Exhausted
    /\ num_contiguous_regions(map) >= 2
    /\ iterator.yielded_front # <<>>
    /\ iterator.yielded_back # <<>>
    /\ \E s \in DOMAIN map : Len(map[s]) >= 2

\* ---------------------------------------------------------------- emptiness
\* C29: is_empty(), len() = 0 and num_contiguous_regions() = 0 agree in every
\* reachable state, and all three hold right after clear().
C29_Emptiness ==
    /\ is_empty(map) <=> len(map) = 0
    /\ is_empty(map) <=> num_contiguous_regions(map) = 0
    /\ Returned("clear") =>
           ~panicked /\ is_empty(map) /\ len(map) = 0 /\ num_contiguous_regions(map) = 0

\* the map is empty again after the remove of its only value
C29_Witness ==
    /\ Returned("remove")
    /\ len(prev) = 1
    /\ lastCall.ret # None
    /\ is_empty(map)

\* ---------------------------------------------------------------- find_range
\* the place (region start, offset) of the present key k
IndexOf(m, k) == Index(RegionOf(m, k), k - RegionOf(m, k))

C36_SignedDifference ==
    Returned("difference") =>
        /\ ~panicked
        /\ lastCall.ret = IF lastCall.key >= lastCall.n
                          THEN Some(lastCall.key - lastCall.n)
                          ELSE None

\* i8::MAX.difference(i8::MIN) returned 255
C36_Witness ==
    /\ Returned("difference")
    /\ lastCall.key = 127
    /\ lastCall.n = -128
    /\ lastCall.ret = Some(255)

\* C37: for i8 keys, i.add_usize(n) is Some(i + n) in unbounded integers when
\* the sum is at most 127 and None otherwise, for every n in 0..=256; add_one
\* agrees with add_usize(1).
C37_SignedAddUsize ==
    /\ Returned("add_usize") =>
           /\ ~panicked
           /\ lastCall.ret = IF lastCall.key + lastCall.n <= 127
                             THEN Some(lastCall.key + lastCall.n)
                             ELSE None
    /\ Returned("add_one") =>
           /\ ~panicked
           /\ {[ret |-> lastCall.ret, panic |-> FALSE]} = signed_add_usize(lastCall.key, 1)

\* a negative key plus a number that only fits the unsigned type
C37_Witness ==
    /\ Returned("add_usize")
    /\ lastCall.key = -128
    /\ lastCall.n = 255
    /\ lastCall.ret = Some(127)

C33_NoUnwrapFails ==
    pc = "returned" /\ lastCall.op \in {"insert", "remove", "clear_range"} =>
        /\ ~panicked
        /\ \A s \in (DOMAIN map) \ (DOMAIN prev) : s \in Keys /\ LastKey(map, s) <= KeyMax
        /\ lastCall.op = "clear_range" =>
               LET found == find_range(prev, lastCall.start, lastCall.end)
               IN  found # None =>
                       /\ found[1].start.key \in DOMAIN prev
                       /\ found[1].end.key \in DOMAIN prev
                       /\ found[1].end.offset < Len(prev[found[1].end.key])

\* a range clear took the front of the region that ends at the maximum key and
\* moved the rest of it to the key after the cleared span
C33_Witness ==
    /\ Returned("clear_range")
    /\ \E s \in DOMAIN prev :
           /\ LastKey(prev, s) = KeyMax
           /\ Len(prev[s]) >= 2
           /\ s \notin DOMAIN map
           /\ get(map, KeyMax) # None

\* ---------------------------------------------------------------- laws
\* C38: on every reachable map, remove(k) returning Some(v) followed by
\* insert(k, v) restores exactly the regions that were there before.
C38_RemoveInsertRoundTrip ==
    Returned("remove") /\ lastCall.ret # None =>
        LET back == insert(map, lastCall.key, lastCall.ret[1])
        IN  /\ ~panicked
            /\ ~back.panic
            /\ back.ret = None
            /\ back.map = prev

\* the remove split a region in two
C38_Witness ==
    /\ Returned("remove")
    /\ lastCall.ret # None
    /\ num_contiguous_regions(map) = num_contiguous_regions(prev) + 1
    /\ insert(map, lastCall.key, lastCall.ret[1]).map = prev

\* the regions that the contents of m determine: one region per maximal run
\* of present keys
Canonical(m) ==
    LET starts == {k \in Present(m) : k = 0 \/ get(m, k - 1) = None}
        run(s) == Cardinality({k \in Keys : k >= s /\ \A j \in s..k : get(m, j) # None})
    IN  [s \in starts |-> [i \in 1..run(s) |-> get(m, s + i - 1)[1]]]

\* C39: the regions are a function of the contents alone, whatever calls led
\* there, so equal contents mean equal regions; and two inserts at different
\* keys commute.
C39_RegionsFromContents ==
    /\ map = Canonical(map)
    /\ Returned("insert") =>
           \A k \in Keys \ {lastCall.key} : \A v \in Values :
               insert(map, k, v).map
                   = insert(insert(prev, k, v).map, lastCall.key, lastCall.value).map

\* an insert joined two regions into one
C39_Witness ==
    /\ Returned("insert")
    /\ lastCall.ret = None
    /\ num_contiguous_regions(map) = num_contiguous_regions(prev) - 1
    /\ map = Canonical(map)

\* C40: for every reachable map and every key k, present or absent, the
\* regions after remove(k), after clear_range(k..=k) and after
\* clear_with_len(k, 1) are the same.
C40_RemoveIsClearOne ==
    Returned("remove") =>
        LET by_range == clear_range(prev, Included(lastCall.key), Included(lastCall.key))
            by_len == clear_with_len(prev, lastCall.key, 1)
        IN  /\ ~panicked
            /\ ~by_range.panic
            /\ ~by_len.panic
            /\ by_range.map = map
            /\ by_len.map = map

\* the remove of the maximum key, where clear_with_len cannot form k + 1
C40_Witness ==
    /\ Returned("remove")
    /\ lastCall.key = KeyMax
    /\ lastCall.ret # None
    /\ len(map) >= 1
    /\ clear_with_len(prev, KeyMax, 1).map = map

\* ---------------------------------------------------------------- cursors
\* the last call was a next() that yielded an item
LastYieldAtFront ==
    /\ iterator.yielded_front # <<>>
    /\ iterator.ret = Some(iterator.yielded_front[Len(iterator.yielded_front)])

\* a cursor that still has a value to give
Pending(entry) == entry # None /\ entry[1][2] # <<>>

\* C34: next() moves the front cursor's key to the successor only when values
\* remain in the region: after the last value of a region that ends at the
\* maximum key it has yielded (MAX, value), the front cursor is empty, and the
\* successor of MAX was not computed (no panic).
C34_FrontCursorAtMax ==
    iterator.kind \in {"iter", "range"} =>
        /\ ~panicked
        /\ LastYieldAtFront =>
               LET item == iterator.ret[1]
                   front == iterator.cursors.front_entry
               IN  /\ front # None =>
                          /\ front[1][2] # <<>>
                          /\ front[1][1] = item[1] + 1
                          /\ front[1][1] \in Keys
                   /\ item[1] = KeyMax =>
                          /\ front = None
                          /\ get(map, KeyMax) = Some(item[2])

\* next() has just yielded the maximum key, the last of a region of several
\* values
C34_Witness ==
    /\ iterator.kind = "iter"
    /\ LastYieldAtFront
    /\ iterator.ret[1][1] = KeyMax
    /\ HasValue(map, KeyMax - 1)
    /\ iterator.cursors.front_entry = None
    /\ ~panicked

\* C35: next() takes its value from the front cursor if that has one, else
\* from the next region of the region iterator, else it takes over the back
\* cursor and leaves it empty; the back cursor stays as it is while the other
\* two can supply.  next_back() is the mirror image.  Stated for the call made
\* in each reachable state of an iterator.
C35_SourceOrder ==
    iterator.kind \in {"iter", "range"} /\ ~panicked =>
        LET c == iterator.cursors
            f == next_impl(map, c)
            b == next_back_impl(map, c)
            front_item(e) == <<e[1][1], Head(e[1][2])>>
            back_item(e) == <<e[1][1] + Len(e[1][2]) - 1, e[1][2][Len(e[1][2])]>>
        IN  /\ ~f.panic
            /\ ~b.panic
            /\ IF Pending(c.front_entry)
               THEN /\ f.ret = Some(front_item(c.front_entry))
                    /\ f.cursors.map_iter = c.map_iter
                    /\ f.cursors.back_entry = c.back_entry
               ELSE IF has_next(c)
               THEN /\ f.ret = Some(front_item(Some(extract(map, Head(c.map_iter[1])))))
                    /\ f.cursors.map_iter = Some(Tail(c.map_iter[1]))
                    /\ f.cursors.back_entry = c.back_entry
               ELSE /\ f.ret = IF Pending(c.back_entry)
                               THEN Some(front_item(c.back_entry)) ELSE None
                    /\ f.cursors.map_iter = c.map_iter
                    /\ f.cursors.back_entry = None
            /\ IF Pending(c.back_entry)
               THEN /\ b.ret = Some(back_item(c.back_entry))
                    /\ b.cursors.map_iter = c.map_iter
                    /\ b.cursors.front_entry = c.front_entry
               ELSE IF has_next(c)
               THEN LET keys == c.map_iter[1]
                    IN  /\ b.ret = Some(back_item(Some(extract(map, keys[Len(keys)]))))
                        /\ b.cursors.map_iter = Some(SubSeq(keys, 1, Len(keys) - 1))
                        /\ b.cursors.front_entry = c.front_entry
               ELSE /\ b.ret = IF Pending(c.front_entry)
                               THEN Some(back_item(c.front_entry)) ELSE None
                    /\ b.cursors.map_iter = c.map_iter
                    /\ b.cursors.front_entry = None

\* next() has just yielded the first key of a region of which next_back() had
\* already yielded a value: it took over the back cursor, which is now empty
C35_Witness ==
    /\ iterator.kind = "iter"
    /\ LastYieldAtFront
    /\ iterator.ret[1][1] \in DOMAIN map
    /\ \E j \in 1..Len(iterator.yielded_back) :
           RegionOf(map, iterator.yielded_back[j][1]) = iterator.ret[1][1]
    /\ Pending(iterator.cursors.front_entry)
    /\ iterator.cursors.back_entry = None
    /\ num_contiguous_regions(map) >= 2

====
